---- MODULE Spec2Model ----
(***************************************************************************)
(* Model of the document chunking and retrieval-grounding pipeline of      *)
(* access-ed-backend: AutoChunker (auto_chunker.py), the relevance gate,   *)
(* the context assembly and generate_response of RAGHandler                *)
(* (rag_handler.py), the /chat endpoint (main.py), the ingestion of        *)
(* DocumentProcessor (document_processor.py), the upload of                *)
(* PineconeManager (pinecone_manager.py) and the startup of the            *)
(* application (lifespan, main.py).                                        *)
(*                                                                         *)
(* Text is a sequence of one-character strings.  Python's 0-based          *)
(* half-open slices s[a:b] are written Slice(s, a, b).                     *)
(***************************************************************************)
EXTENDS Integers, Sequences, FiniteSets, TLC

VARIABLES
    pc,               \* position of the chunker: new, ready, for, while, done
    max_chunk_size,   \* AutoChunker.max_chunk_size
    min_chunk_size,   \* AutoChunker.min_chunk_size
    overlap_size,     \* AutoChunker.overlap_size
    content,          \* the content argument of chunk_document
    sections,         \* chunk_document: sections (result of _split_into_sections)
    sec,              \* chunk_document: index of the section the for loop is at
    chunks,           \* chunk_document: the list of TextChunk built so far
    start,            \* _chunk_section: cursor of the sliding window
    section_chunks,   \* _chunk_section: its local list chunks
    seen,             \* history: cursors the while loop has already processed
    retrieved_docs,   \* the matches the index returned (results.matches)
    relevant,         \* <<r>> once _check_relevance has returned r
    context_data,     \* <<d>> once _prepare_context has returned d (generate_response)
    chat_sources,     \* <<r>> once chat has filled the source lists of its response
    chat_pc,          \* position of a /chat request: idle, searching, posting, done
    request,          \* the ChatRequest being handled: message and history
    index_queries,    \* history: number of queries chat has sent to the vector index
    posts,            \* history: the payloads posted to the generation service
    api_reply,        \* <<r>> once the generation service has answered with r
    response,         \* <<t>> once generate_response has returned the text t
    chat_response,    \* <<r>> once chat has ended with the ChatResponse or error r
    ingest_pc,        \* position of process_documents: idle, category, file, returned
    listing,          \* the entries of categories_dir, with the files of each
    category,         \* process_documents: index of the entry the outer loop is at
    file,             \* process_documents: index of the file the inner loop is at
    documents,        \* process_documents: the list documents
    upload_pc,        \* position of add_documents: idle, batches
    index,            \* the vector index: the set of the stored [id, metadata]
    vectors,          \* add_documents: the list vectors
    batch_start,      \* add_documents: the variable i of the loop over the batches
    uploads,          \* history: the calls of add_documents, with their outcome
    startup_pc,       \* position of lifespan: off, reload, serving, failed
    unawaited         \* history: the document lists of the add_documents
                      \* coroutines that were created and never awaited

chunkVars == <<pc, max_chunk_size, min_chunk_size, overlap_size, content,
               sections, sec, chunks, start, section_chunks, seen>>

ragVars == <<retrieved_docs, relevant, context_data, chat_sources>>

chatVars == <<chat_pc, request, index_queries, posts, api_reply, response,
              chat_response>>

\* the variables neither the chunker nor the gate and the context assembly use
ingestVars == <<ingest_pc, listing, category, file, documents>>

uploadVars == <<upload_pc, index, vectors, batch_start, uploads>>

startupVars == <<startup_pc, unawaited>>

\* the variables of the offline work: chunking, ingestion and upload
offlineVars == <<chunkVars, ingestVars, uploadVars, startupVars>>

otherVars == <<chatVars, ingestVars, uploadVars, startupVars>>

vars == <<chunkVars, ragVars, otherVars>>

----------------------------------------------------------------------------
(* Bounds of the model *)

\* largest number of segments an input text is built from
MaxSegs == 4

\* largest max_chunk_size a chunker is constructed with
MaxSize == 4

(* Program constants *)

\* _chunk_section looks 50 characters past the window for a sentence end
LookAhead == 50

----------------------------------------------------------------------------
(* Character classes of Python's re module, over the characters used here *)

\* \s
Whitespace == {" ", "\n", "\t", "\r"}

\* [A-Z]
Upper == {"A", "B"}

\* \w
WordChars == {"a", "b", "A", "B", "0", "_"}

\* [.!?]
SentenceEnd == {".", "!", "?"}

\* the punctuation _clean_text keeps: . , ! ? ; : ( ) - ' "
KeptPunctuation == {".", ",", "!", "?", ";", ":", "(", ")", "-", "'", "\""}

Min2(a, b) == IF a <= b THEN a ELSE b

Max2(a, b) == IF a >= b THEN a ELSE b

\* Python s[a:b] for 0 <= a (b is clamped to len(s) as Python does)
Slice(s, a, b) == SubSeq(s, a + 1, Min2(b, Len(s)))

\* length of the run of characters of class cls starting at 1-based index i
RECURSIVE RunLen(_, _, _)
RunLen(s, i, cls) ==
    IF i > Len(s) \/ s[i] \notin cls THEN 0 ELSE 1 + RunLen(s, i + 1, cls)

\* str.strip()
RECURSIVE LStrip(_)
LStrip(s) ==
    IF s # <<>> /\ Head(s) \in Whitespace THEN LStrip(Tail(s)) ELSE s

RECURSIVE RStrip(_)
RStrip(s) ==
    IF s # <<>> /\ s[Len(s)] \in Whitespace
    THEN RStrip(SubSeq(s, 1, Len(s) - 1)) ELSE s

Strip(s) == RStrip(LStrip(s))

\* re.sub(cls+, ' ', s): every maximal run of characters of cls becomes ' '
RECURSIVE SubRuns(_, _, _)
SubRuns(s, i, cls) ==
    IF i > Len(s) THEN <<>>
    ELSE IF s[i] \in cls
         THEN <<" ">> \o SubRuns(s, i + RunLen(s, i, cls), cls)
         ELSE <<s[i]>> \o SubRuns(s, i + 1, cls)

\* the characters of s, as a set
Chars(s) == {s[i] : i \in 1..Len(s)}

\* AutoChunker._clean_text
CleanText(text) ==
    LET t1 == SubRuns(text, 1, Whitespace)
        special == Chars(t1) \ (WordChars \cup Whitespace \cup KeptPunctuation)
        t2 == SubRuns(t1, 1, special)
    IN  Strip(t2)

----------------------------------------------------------------------------
(* AutoChunker._split_into_sections *)

\* length of the match of the section-marker pattern at 1-based index i of s,
\* 0 when none of the four alternatives matches there
MarkerLen(s, i) ==
    LET n == Len(s)
        ws == RunLen(s, i, Whitespace)
        ws1 == RunLen(s, i + 1, Whitespace)
        nl == RunLen(s, i, {"\n"})
        upperAt(j) == j <= n /\ s[j] \in Upper
    IN  IF nl >= 2 THEN nl
        ELSE IF i > 1 /\ s[i - 1] \in SentenceEnd /\ ws >= 1 /\ upperAt(i + ws)
             THEN ws
        ELSE IF s[i] = "." /\ i > 1 /\ s[i - 1] \in WordChars
                /\ ws1 >= 1 /\ upperAt(i + 1 + ws1)
             THEN 1 + ws1
        ELSE IF s[i] = "\r" /\ i < n /\ s[i + 1] = "\n" /\ upperAt(i + 2)
             THEN 2
        ELSE IF s[i] \in {"\n", "\r"} /\ upperAt(i + 1)
             THEN 1
        ELSE 0

\* re.split(pattern, text): scan from i, the current piece began at from
RECURSIVE ReSplit(_, _, _)
ReSplit(s, i, from) ==
    IF i > Len(s) THEN <<SubSeq(s, from, Len(s))>>
    ELSE LET m == MarkerLen(s, i)
         IN  IF m > 0
             THEN <<SubSeq(s, from, i - 1)>> \o ReSplit(s, i + m, i + m)
             ELSE ReSplit(s, i + 1, from)

\* StripNonEmpty without its filter "if s.strip()": empty pieces are kept
StripKeepEmpty(pieces) == [i \in 1..Len(pieces) |-> Strip(pieces[i])]

\* [s.strip() for s in pieces if s.strip()]
RECURSIVE StripNonEmpty(_)
StripNonEmpty(pieces) ==
    IF pieces = <<>> THEN <<>>
    ELSE LET p == Strip(Head(pieces))
         IN  (IF p = <<>> THEN <<>> ELSE <<p>>) \o StripNonEmpty(Tail(pieces))

\* ' '.join(parts)
RECURSIVE JoinSpace(_)
JoinSpace(parts) ==
    IF parts = <<>> THEN <<>>
    ELSE IF Len(parts) = 1 THEN parts[1]
    ELSE parts[1] \o <<" ">> \o JoinSpace(Tail(parts))

\* the greedy merge loop: current_section, current_length over the rest
RECURSIVE MergeSections(_, _, _, _)
MergeSections(rest, current_section, current_length, maxSize) ==
    IF rest = <<>>
    THEN IF current_section # <<>> THEN <<JoinSpace(current_section)>> ELSE <<>>
    ELSE LET section == Head(rest)
             section_length == Len(section)
         IN  IF current_length + section_length <= maxSize
             THEN MergeSections(Tail(rest), Append(current_section, section),
                                current_length + section_length, maxSize)
             ELSE (IF current_section # <<>>
                   THEN <<JoinSpace(current_section)>> ELSE <<>>)
                  \o MergeSections(Tail(rest), <<section>>, section_length, maxSize)

SplitIntoSections(text, maxSize) ==
    MergeSections(StripNonEmpty(ReSplit(text, 1, 1)), <<>>, 0, maxSize)

----------------------------------------------------------------------------
(* AutoChunker._find_sentence_boundary and _find_word_boundary *)

\* the last index at or before i where a match of [.!?]\s+ begins, 0 if none
RECURSIVE LastSentenceEnd(_, _)
LastSentenceEnd(text, i) ==
    IF i = 0 THEN 0
    ELSE IF text[i] \in SentenceEnd /\ i < Len(text) /\ text[i + 1] \in Whitespace
         THEN i
         ELSE LastSentenceEnd(text, i - 1)

\* end offset of the last match of [.!?]\s+ in text, -1 when there is none
FindSentenceBoundary(text) ==
    LET last == LastSentenceEnd(text, Len(text))
    IN  IF last = 0 THEN -1
        ELSE last + RunLen(text, last + 1, Whitespace)

\* the last index at or before i where a run of whitespace begins, 0 if none
RECURSIVE LastWhitespaceRun(_, _)
LastWhitespaceRun(text, i) ==
    IF i = 0 THEN 0
    ELSE IF text[i] \in Whitespace /\ (i = 1 \/ text[i - 1] \notin Whitespace)
         THEN i
         ELSE LastWhitespaceRun(text, i - 1)

\* start offset of the last match of \s+ in text, -1 when there is none
FindWordBoundary(text) ==
    LET last == LastWhitespaceRun(text, Len(text))
    IN  IF last = 0 THEN -1 ELSE last - 1

----------------------------------------------------------------------------
(* Inputs *)

\* the characters input texts are written in
Alphabet == {"a", "A", ".", " ", "@"}

\* all texts of at most k characters
RECURSIVE ShortTexts(_)
ShortTexts(k) ==
    IF k = 0 THEN {<<>>}
    ELSE LET shorter == ShortTexts(k - 1)
         IN  shorter \cup {Append(t, c) : t \in shorter, c \in Alphabet}

\* a word without any boundary that fills the look-ahead window of the
\* smallest chunker
Filler == [i \in 1..LookAhead + 2 |-> "a"]

\* the documents: the short texts, and the short texts after a long word
Texts == ShortTexts(MaxSegs) \cup {Filler \o t : t \in ShortTexts(MaxSegs - 1)}

\* constructor arguments tried, valid and invalid ones: overlap_size up to
\* max_chunk_size itself, and a min_chunk_size that the smaller chunker
\* does not exceed (min_chunk_size is stored and never read again, it is
\* varied for one overlap_size only).  With max_chunk_size 3 a short text
\* has a first chunk shorter than the overlap.
MaxSizes == {2, 3, MaxSize}

Configs ==
    {c \in [max : MaxSizes, min : {0, 2}, overlap : 0..MaxSize] :
        /\ c.overlap <= c.max
        /\ c.min = 0 \/ c.overlap = 0}

\* the metadata argument of chunk_document
DocMetadata == [source |-> "doc.txt"]

----------------------------------------------------------------------------
(* AutoChunker as a state machine *)

\* TextChunk(content=c, metadata=metadata.copy(), size=len(c))
TextChunk(c, metadata) == [content |-> c, metadata |-> metadata, size |-> Len(c)]

\* chunk.metadata.update({'chunk_index': i, 'total_chunks': n})
UpdatePosition(metadata, i, n) ==
    [k \in DOMAIN metadata \cup {"chunk_index", "total_chunks"} |->
        IF k = "chunk_index" THEN i
        ELSE IF k = "total_chunks" THEN n
        ELSE metadata[k]]

\* AddPositions counting from one
AddPositionsFromOne(cs) ==
    [i \in 1..Len(cs) |->
        [cs[i] EXCEPT !.metadata = UpdatePosition(@, i, Len(cs))]]

\* the loop "for i, chunk in enumerate(chunks)" of chunk_document
AddPositions(cs) ==
    [i \in 1..Len(cs) |->
        [cs[i] EXCEPT !.metadata = UpdatePosition(@, i - 1, Len(cs))]]

\* the end of the window: end = start + self.max_chunk_size
WindowEnd(from, maxSize) == from + maxSize

\* LookAheadWindow without its end: the whole rest of the section is searched
LookAheadUnlimited(section, from, end) == Slice(section, from, Len(section))

\* the text searched for a sentence end: section[start:end + 50]
LookAheadWindow(section, from, end) == Slice(section, from, end + LookAhead)

\* ChunkEnd preferring the word boundary to the sentence boundary
ChunkEndWordFirst(section, from, end) ==
    LET sentence_end == FindSentenceBoundary(LookAheadWindow(section, from, end))
        word_end == FindWordBoundary(Slice(section, from, end))
    IN  IF word_end > 0 THEN word_end + from
        ELSE IF sentence_end > 0 THEN from + sentence_end
        ELSE end

\* chunk_end of one window step that is not the last one
ChunkEnd(section, from, end) ==
    LET sentence_end == FindSentenceBoundary(LookAheadWindow(section, from, end))
        word_end == FindWordBoundary(Slice(section, from, end))
    IN  IF sentence_end > 0 THEN from + sentence_end
        ELSE IF word_end <= 0 THEN end
        ELSE word_end + from

\* NextStart without the overlap: the cursor moves to the cut
NextStartNoOverlap(chunk_end, overlap) == Max2(chunk_end, 0)

\* NextStart without the clamp at the start of the section
NextStartUnclamped(chunk_end, overlap) == chunk_end - overlap

\* start = max(chunk_end - self.overlap_size, 0)
NextStart(chunk_end, overlap) == Max2(chunk_end - overlap, 0)

\* AutoChunker.__init__: stores its arguments
Construct(maxSize, minSize, overlap) ==
    /\ pc = "new"
    /\ max_chunk_size' = maxSize
    /\ min_chunk_size' = minSize
    /\ overlap_size' = overlap
    /\ pc' = "ready"
    /\ UNCHANGED <<content, sections, sec, chunks, start, section_chunks, seen,
                   ragVars, otherVars>>

\* chunk_document up to its for loop: clean, split, chunks = []
ChunkDocument ==
    /\ pc = "ready"
    /\ \E text \in Texts :
          /\ content' = text
          /\ sections' = SplitIntoSections(CleanText(text), max_chunk_size)
    /\ sec' = 1
    /\ chunks' = <<>>
    /\ pc' = "for"
    /\ UNCHANGED <<max_chunk_size, min_chunk_size, overlap_size,
                   start, section_chunks, seen, ragVars, otherVars>>

\* for loop, a section that fits: it becomes a chunk directly
SectionFits ==
    /\ pc = "for"
    /\ sec <= Len(sections)
    /\ Len(sections[sec]) <= max_chunk_size
    /\ chunks' = Append(chunks, TextChunk(sections[sec], DocMetadata))
    /\ sec' = sec + 1
    /\ UNCHANGED <<pc, max_chunk_size, min_chunk_size, overlap_size, content,
                   sections, start, section_chunks, seen, ragVars, otherVars>>

\* for loop, a section that is too long: _chunk_section is entered
SectionSplit ==
    /\ pc = "for"
    /\ sec <= Len(sections)
    /\ Len(sections[sec]) > max_chunk_size
    /\ start' = 0
    /\ section_chunks' = <<>>
    /\ seen' = {}
    /\ pc' = "while"
    /\ UNCHANGED <<max_chunk_size, min_chunk_size, overlap_size, content,
                   sections, sec, chunks, ragVars, otherVars>>

\* one iteration of the while loop that cuts a chunk and moves the cursor.
\* The loop is a function of the cursor alone, so from a cursor it has
\* already processed it repeats itself for ever: the model stops there.
WindowCut ==
    /\ pc = "while"
    /\ start \notin seen
    /\ LET section == sections[sec]
           end == WindowEnd(start, max_chunk_size)
           chunk_end == ChunkEnd(section, start, end)
       IN  /\ start < Len(section)
           /\ end < Len(section)
           /\ section_chunks' = Append(section_chunks, Slice(section, start, chunk_end))
           /\ start' = NextStart(chunk_end, overlap_size)
    /\ seen' = seen \cup {start}
    /\ UNCHANGED <<pc, max_chunk_size, min_chunk_size, overlap_size, content,
                   sections, sec, chunks, ragVars, otherVars>>

\* the last iteration of the while loop (the tail is appended, break) or the
\* loop condition failing; _chunk_section returns and its chunks are wrapped
WindowLast ==
    /\ pc = "while"
    /\ LET section == sections[sec]
           end == WindowEnd(start, max_chunk_size)
           returned == IF start < Len(section)
                       THEN Append(section_chunks, Slice(section, start, Len(section)))
                       ELSE section_chunks
       IN  /\ start >= Len(section) \/ end >= Len(section)
           /\ chunks' = chunks \o [i \in 1..Len(returned) |->
                                      TextChunk(returned[i], DocMetadata)]
           /\ section_chunks' = returned
    /\ sec' = sec + 1
    /\ pc' = "for"
    /\ UNCHANGED <<max_chunk_size, min_chunk_size, overlap_size, content,
                   sections, start, seen, ragVars, otherVars>>

\* the end of chunk_document: positions are written and the list returned
ReturnChunks ==
    /\ pc = "for"
    /\ sec > Len(sections)
    /\ chunks' = AddPositions(chunks)
    /\ pc' = "done"
    /\ UNCHANGED <<max_chunk_size, min_chunk_size, overlap_size, content,
                   sections, sec, start, section_chunks, seen, ragVars, otherVars>>

ChunkInit ==
    /\ pc = "new"
    /\ max_chunk_size = 0
    /\ min_chunk_size = 0
    /\ overlap_size = 0
    /\ content = <<>>
    /\ sections = <<>>
    /\ sec = 0
    /\ chunks = <<>>
    /\ start = 0
    /\ section_chunks = <<>>
    /\ seen = {}

\* no request has been handled
RagInit ==
    /\ retrieved_docs = <<>>
    /\ relevant = <<>>
    /\ context_data = <<>>
    /\ chat_sources = <<>>

\* no /chat request has come in
ChatIdle ==
    /\ chat_pc = "idle"
    /\ request = <<>>
    /\ index_queries = 0
    /\ posts = <<>>
    /\ api_reply = <<>>
    /\ response = <<>>
    /\ chat_response = <<>>

\* process_documents has not been called
IngestIdle ==
    /\ ingest_pc = "idle"
    /\ listing = <<>>
    /\ category = 0
    /\ file = 0
    /\ documents = <<>>

\* add_documents has not been called and the index is empty
UploadIdle ==
    /\ upload_pc = "idle"
    /\ index = {}
    /\ vectors = <<>>
    /\ batch_start = 0
    /\ uploads = <<>>

\* the application has not been started
StartupIdle ==
    /\ startup_pc = "off"
    /\ unawaited = <<>>

OtherInit == ChatIdle /\ IngestIdle /\ UploadIdle /\ StartupIdle

Init == ChunkInit /\ RagInit /\ OtherInit

Next ==
    \/ \E c \in Configs : Construct(c.max, c.min, c.overlap)
    \/ ChunkDocument
    \/ SectionFits
    \/ SectionSplit
    \/ WindowCut
    \/ WindowLast
    \/ ReturnChunks

Spec == Init /\ [][Next]_vars

----------------------------------------------------------------------------
(* Properties of the chunker *)

\* max_chunk_size > min_chunk_size >= 0 and max_chunk_size > overlap_size >= 0
ValidConfig ==
    /\ max_chunk_size > min_chunk_size
    /\ min_chunk_size >= 0
    /\ max_chunk_size > overlap_size
    /\ overlap_size >= 0

\* the while loop is back at a cursor it has processed before; its next
\* iterations repeat the earlier ones, so it never reaches its final branch
LoopsForever == pc = "while" /\ start \in seen

\* C1: under every valid configuration chunk_document terminates: the
\* sliding-window loop never returns to a cursor it has already processed,
\* so it reaches its final-chunk branch.
C1_Terminates == ValidConfig => ~LoopsForever

\* C2: every chunk, whether a section emitted directly or a piece of the
\* sliding-window split, is at most max_chunk_size + 50 characters long.
C2_ChunkSizeBound ==
    pc # "new" =>
        /\ \A i \in 1..Len(chunks) :
              /\ chunks[i].size = Len(chunks[i].content)
              /\ chunks[i].size <= max_chunk_size + LookAhead
        /\ pc = "while" =>
              \A i \in 1..Len(section_chunks) :
                 Len(section_chunks[i]) <= max_chunk_size + LookAhead

\* a returned chunk that was cut at a sentence end found in the look-ahead:
\* it is longer than max_chunk_size and than the look-ahead itself
C2_Witness ==
    /\ pc = "done"
    /\ \E i \in 1..Len(chunks) :
          chunks[i].size > max_chunk_size /\ chunks[i].size > LookAhead

\* C3: in the returned list the chunk at position i has chunk_index i
\* (counting from 0) and every chunk has total_chunks equal to the length
\* of the list.
C3_Positions ==
    pc = "done" =>
        \A i \in 1..Len(chunks) :
           /\ chunks[i].metadata.chunk_index = i - 1
           /\ chunks[i].metadata.total_chunks = Len(chunks)

C3_Witness == pc = "done" /\ Len(chunks) >= 3

\* s without its whitespace
RECURSIVE NoWhitespace(_)
NoWhitespace(s) ==
    IF s = <<>> THEN <<>>
    ELSE (IF Head(s) \in Whitespace THEN <<>> ELSE <<Head(s)>>)
         \o NoWhitespace(Tail(s))

\* the contents of the chunks from the i-th on, every chunk but the first
\* of the list without its overlap_size overlapping characters
RECURSIVE Reassemble(_, _, _)
Reassemble(cs, i, overlap) ==
    IF i > Len(cs) THEN <<>>
    ELSE (IF i = 1 THEN cs[i].content
          ELSE Slice(cs[i].content, overlap, Len(cs[i].content)))
         \o Reassemble(cs, i + 1, overlap)

\* C4: the returned chunks, each but the first without its overlap_size
\* overlapping characters, concatenate to the cleaned text; the only
\* characters allowed to differ are whitespace.
C4_Reconstructs ==
    (pc = "done" /\ ValidConfig) =>
        NoWhitespace(Reassemble(chunks, 1, overlap_size))
            = NoWhitespace(CleanText(content))

\* C5: a chunker exists only with valid bounds: construction with
\* max_chunk_size <= min_chunk_size, overlap_size >= max_chunk_size or a
\* negative bound fails, so chunk_document never runs under such bounds.
C5_ConstructorRejects == pc # "new" => ValidConfig

\* C6 as stated: a text shorter than max_chunk_size gives exactly one chunk
\* with chunk_index 0 and total_chunks 1, the empty text gives no chunk.
C6_ShortTextOneChunk ==
    (pc = "done" /\ Len(content) < max_chunk_size) =>
        IF content = <<>> THEN chunks = <<>>
        ELSE /\ Len(chunks) = 1
             /\ chunks[1].metadata.chunk_index = 0
             /\ chunks[1].metadata.total_chunks = 1

\* C6 amended: a text shorter than max_chunk_size whose cleaned form is not
\* empty gives exactly one chunk with chunk_index 0 and total_chunks 1; a
\* text that is empty or cleans to the empty text gives no chunk.
C6_ShortText ==
    (pc = "done" /\ Len(content) < max_chunk_size) =>
        IF CleanText(content) = <<>> THEN chunks = <<>>
        ELSE /\ Len(chunks) = 1
             /\ chunks[1].metadata.chunk_index = 0
             /\ chunks[1].metadata.total_chunks = 1

\* a short text with a sentence boundary in it that came back as one chunk
C6_Witness ==
    /\ pc = "done"
    /\ Len(content) < max_chunk_size
    /\ \E i \in 1..Len(CleanText(content)) : MarkerLen(CleanText(content), i) > 0
    /\ Len(chunks) = 1

----------------------------------------------------------------------------
(* Retrieved matches *)

(* A text of the index is a sequence of lines (str.split('\n')), a line a  *)
(* sequence of words; the empty string is the one empty line.  A match is  *)
(* what PineconeManager.add_documents stored for a chunk of _process_file. *)

\* search asks the index for top_k = 3 matches
MaxMatches == 3

\* most matches a context is assembled from
MaxContextMatches == 2

EmptyText == << <<>> >>

\* f"Title: {title}\nSource URL: {source_url}\n\nContent:\n{chunk.content}"
StoredContent(title, source_url, chunk) ==
    << <<"Title:">> \o title,
       <<"Source URL:">> \o (IF source_url = "" THEN <<>> ELSE <<source_url>>),
       <<>>,
       <<"Content:">>,
       chunk >>

\* the metadata add_documents writes, under the score the index returns
Match(score, title, source_url, chunk) ==
    [score |-> score,
     metadata |-> [content |-> StoredContent(title, source_url, chunk),
                   title |-> title,
                   source |-> DocMetadata.source,
                   source_url |-> source_url]]

\* similarity scores and thresholds, in hundredths
Scores == {55, 60, 90}

Thresholds == {60, 55}

Titles == {<<>>, <<"T1">>, <<"T2">>}

Urls == {"", "http://u1", "http://u2"}

\* chunk texts: two topics, one topic, no topic, and a chunk that happens
\* to begin with the word "Title:"
ChunkTexts ==
    {<<"Students", "use", "software">>,
     <<"accessible", "support">>,
     <<"the", "weather">>,
     <<"Title:", "of", "the", "course">>}

\* all sequences of at most n elements of S
RECURSIVE SeqsUpTo(_, _)
SeqsUpTo(S, n) ==
    IF n = 0 THEN {<<>>}
    ELSE LET shorter == SeqsUpTo(S, n - 1)
         IN  shorter \cup {Append(q, x) : q \in shorter, x \in S}

\* dict.get(key, default)
Get(dict, key, default) == IF key \in DOMAIN dict THEN dict[key] ELSE default

----------------------------------------------------------------------------
(* RAGHandler._check_relevance *)

\* core_topics
CoreTopics ==
    [education |-> {"learning", "student", "teach", "school", "classroom",
                    "curriculum", "instruction", "class", "programming",
                    "slides", "lecture", "course"},
     accessibility |-> {"disability", "accessible", "accommodation",
                        "modification", "support", "assistive", "access",
                        "inclusive"},
     technology |-> {"software", "tool", "device", "technology", "digital",
                     "online", "platform", "computer", "python", "code"}]

\* the terms of core_topics that are substrings of word.lower()
TermsInWord(word) ==
    CASE word = "Students" -> {"student"}
      [] word = "software" -> {"software"}
      [] word = "accessible" -> {"accessible", "access"}
      [] word = "support" -> {"support"}
      [] word = "course" -> {"course"}
      [] OTHER -> {}

\* term in text.lower(): no term has a space or a newline in it
TermsInText(text) ==
    UNION {UNION {TermsInWord(text[l][w]) : w \in 1..Len(text[l])} :
              l \in 1..Len(text)}

\* topic_matches
TopicMatches(content_lower, query_lower) ==
    [topic \in DOMAIN CoreTopics |->
        Cardinality({term \in CoreTopics[topic] :
                        term \in TermsInText(content_lower)
                        \/ term \in TermsInText(query_lower)})]

\* matching_topics
MatchingTopics(doc) ==
    LET topic_matches == TopicMatches(Get(doc.metadata, "content", EmptyText),
                                      Get(doc.metadata, "query", EmptyText))
    IN  Cardinality({topic \in DOMAIN CoreTopics : topic_matches[topic] > 0})

\* DocAdmits without the two score tests
DocAdmitsAnyScore(doc, threshold) == MatchingTopics(doc) >= 2

\* DocAdmits with one matching topic being enough
DocAdmitsOneTopic(doc, threshold) ==
    /\ ~(doc.score <= threshold)
    /\ MatchingTopics(doc) >= 1 /\ doc.score > threshold

\* one iteration of the loop returns True: the document is not skipped for
\* its score, matches two topics and has a score over the threshold
DocAdmits(doc, threshold) ==
    /\ ~(doc.score <= threshold)
    /\ MatchingTopics(doc) >= 2 /\ doc.score > threshold

\* the loop over retrieved_docs from the i-th document on
RECURSIVE CheckFrom(_, _, _)
CheckFrom(docs, i, threshold) ==
    IF i > Len(docs) THEN FALSE
    ELSE IF DocAdmits(docs[i], threshold) THEN TRUE
    ELSE CheckFrom(docs, i + 1, threshold)

\* RAGHandler._check_relevance(retrieved_docs, threshold)
CheckRelevanceOf(docs, threshold) ==
    IF docs = <<>> THEN FALSE ELSE CheckFrom(docs, 1, threshold)

\* a call of _check_relevance on the retrieved matches
CheckRelevance(threshold) ==
    /\ relevant = <<>>
    /\ relevant' = <<[threshold |-> threshold,
                      result |-> CheckRelevanceOf(retrieved_docs, threshold)]>>
    /\ UNCHANGED <<otherVars, chunkVars, retrieved_docs, context_data, chat_sources>>

\* the matches the gate is tried on: every score with every chunk text
GateMatches == {Match(s, <<"T1">>, "http://u1", c) : s \in Scores, c \in ChunkTexts}

GateInit ==
    /\ ChunkInit
    /\ OtherInit
    /\ retrieved_docs \in SeqsUpTo(GateMatches, MaxMatches)
    /\ relevant = <<>>
    /\ context_data = <<>>
    /\ chat_sources = <<>>

GateNext == \E threshold \in Thresholds : CheckRelevance(threshold)

SpecGate == GateInit /\ [][GateNext]_vars

----------------------------------------------------------------------------
(* RAGHandler._prepare_context *)

\* line.strip() is empty
BlankLine(line) == \A w \in 1..Len(line) : line[w] \in Whitespace

\* line.startswith(('Source URL:', 'Title:'))
HeaderLine(line) == line # <<>> /\ line[1] \in {"Source URL:", "Title:"}

\* cleaned_content: the lines of content.split('\n') that are kept
KeptLine(line) == ~BlankLine(line) /\ ~HeaderLine(line)

CleanedContent(text) == SelectSeq(text, KeptLine)

\* '\n\n'.join(contexts), every context being '\n'.join(cleaned_content)
RECURSIVE JoinContexts(_)
JoinContexts(contexts) ==
    IF contexts = <<>> THEN EmptyText
    ELSE IF Len(contexts) = 1 THEN contexts[1]
    ELSE contexts[1] \o << <<>> >> \o JoinContexts(Tail(contexts))

\* IsNewSource without the test on seen_urls
IsAnySource(source_url, seen_urls) == source_url # ""

\* if source_url and source_url not in seen_urls
IsNewSource(source_url, seen_urls) == source_url # "" /\ source_url \notin seen_urls

\* one iteration of the loop over retrieved_docs
AddDoc(acc, doc) ==
    IF "metadata" \notin DOMAIN doc THEN acc
    ELSE LET text == Get(doc.metadata, "content", EmptyText)
             source_url == Get(doc.metadata, "source_url", "")
             title == Get(doc.metadata, "title", <<>>)
             cleaned_content == CleanedContent(text)
             new == IsNewSource(source_url, acc.seen_urls)
         IN  IF text = EmptyText THEN acc
             ELSE [contexts |-> IF cleaned_content # <<>>
                                THEN Append(acc.contexts, cleaned_content)
                                ELSE acc.contexts,
                   seen_urls |-> IF new THEN acc.seen_urls \cup {source_url}
                                 ELSE acc.seen_urls,
                   source_urls |-> IF new THEN Append(acc.source_urls, source_url)
                                   ELSE acc.source_urls,
                   source_titles |-> IF new /\ title # <<>>
                                     THEN Append(acc.source_titles, title)
                                     ELSE acc.source_titles]

RECURSIVE PrepareFrom(_, _, _)
PrepareFrom(docs, i, acc) ==
    IF i > Len(docs) THEN acc
    ELSE PrepareFrom(docs, i + 1, AddDoc(acc, docs[i]))

\* RAGHandler._prepare_context(retrieved_docs)
PrepareContextOf(docs) ==
    LET acc == PrepareFrom(docs, 1, [contexts |-> <<>>, seen_urls |-> {},
                                     source_urls |-> <<>>, source_titles |-> <<>>])
    IN  [content |-> JoinContexts(acc.contexts),
         source_urls |-> acc.source_urls,
         source_titles |-> acc.source_titles]

\* generate_response, not general chat and with matches: the context is built
PrepareContext ==
    /\ context_data = <<>>
    /\ retrieved_docs # <<>>
    /\ context_data' = <<PrepareContextOf(retrieved_docs)>>
    /\ UNCHANGED <<otherVars, chunkVars, retrieved_docs, relevant, chat_sources>>

\* chat: source_urls and source_titles of the response, from a call of
\* _prepare_context of its own
SourceListsOf(docs) ==
    LET own == PrepareContextOf(docs)
    IN  [source_urls |-> own.source_urls, source_titles |-> own.source_titles]

ChatSources ==
    /\ chat_sources = <<>>
    /\ chat_sources' = <<SourceListsOf(retrieved_docs)>>
    /\ UNCHANGED <<otherVars, chunkVars, retrieved_docs, relevant, context_data>>

\* the matches a context is assembled from: every title, URL and chunk text
ContextMatches ==
    {Match(90, t, u, c) : t \in Titles, u \in Urls, c \in ChunkTexts}

ContextInit ==
    /\ ChunkInit
    /\ OtherInit
    /\ retrieved_docs \in SeqsUpTo(ContextMatches, MaxContextMatches)
    /\ relevant = <<>>
    /\ context_data = <<>>
    /\ chat_sources = <<>>

ContextNext == PrepareContext \/ ChatSources

SpecContext == ContextInit /\ [][ContextNext]_vars

----------------------------------------------------------------------------
(* Properties of the relevance gate *)

\* the topics of core_topics that have a term in the text
TopicsHit(text) ==
    {topic \in DOMAIN CoreTopics : CoreTopics[topic] \cap TermsInText(text) # {}}

\* C7: when every match has a score <= threshold (a score equal to the
\* threshold included), and when there is no match at all, _check_relevance
\* returns False.
C7_NotAdmitted ==
    relevant # <<>> =>
        ((\A i \in 1..Len(retrieved_docs) :
             retrieved_docs[i].score <= relevant[1].threshold)
         => relevant[1].result = FALSE)

\* a match at exactly the threshold whose content hits two topics, and no
\* match above the threshold: the gate returned False
C7_Witness ==
    /\ relevant # <<>>
    /\ \A i \in 1..Len(retrieved_docs) :
          retrieved_docs[i].score <= relevant[1].threshold
    /\ \E i \in 1..Len(retrieved_docs) :
          /\ retrieved_docs[i].score = relevant[1].threshold
          /\ Cardinality(TopicsHit(retrieved_docs[i].metadata.content)) >= 2
    /\ relevant[1].result = FALSE

\* C8: _check_relevance returns True exactly when some match has a score
\* above the threshold and the stored content of that same match has terms
\* of at least two of the three topics.
C8_Corroborated ==
    relevant # <<>> =>
        (relevant[1].result = TRUE
         <=> \E i \in 1..Len(retrieved_docs) :
                /\ retrieved_docs[i].score > relevant[1].threshold
                /\ Cardinality(TopicsHit(retrieved_docs[i].metadata.content)) >= 2)

\* the first match is above the threshold and hits one topic only, a later
\* match admits
C8_Witness ==
    /\ relevant # <<>>
    /\ relevant[1].result = TRUE
    /\ Len(retrieved_docs) >= 2
    /\ retrieved_docs[1].score > relevant[1].threshold
    /\ Cardinality(TopicsHit(retrieved_docs[1].metadata.content)) = 1

----------------------------------------------------------------------------
(* Properties of the context assembly *)

\* the source_url of the i-th match
UrlOf(i) == retrieved_docs[i].metadata.source_url

\* the position of the first match with this URL
FirstMatchWith(url) ==
    CHOOSE i \in 1..Len(retrieved_docs) :
        /\ UrlOf(i) = url
        /\ \A j \in 1..(i - 1) : UrlOf(j) # url

\* urls has no entry twice and is in the order of first occurrence
FirstSeenOrder(urls) ==
    /\ \A i \in 1..Len(urls) : \E j \in 1..Len(retrieved_docs) : UrlOf(j) = urls[i]
    /\ \A i, j \in 1..Len(urls) :
          i < j => /\ urls[i] # urls[j]
                   /\ FirstMatchWith(urls[i]) < FirstMatchWith(urls[j])

\* C9: source_urls of _prepare_context has no duplicate and is in the order
\* of first occurrence in the matches, in the context of generate_response
\* and in the lists chat returns to the caller.
C9_UniqueSourceUrls ==
    /\ context_data # <<>> => FirstSeenOrder(context_data[1].source_urls)
    /\ chat_sources # <<>> => FirstSeenOrder(chat_sources[1].source_urls)

\* two matches with the same URL gave one URL in the lists chat returns
C9_Witness ==
    /\ chat_sources # <<>>
    /\ context_data # <<>>
    /\ Len(retrieved_docs) = 2
    /\ UrlOf(1) = UrlOf(2)
    /\ Len(chat_sources[1].source_urls) = 1
    /\ Len(context_data[1].source_urls) = 1

\* the body of a stored text: its lines after the "Content:" marker
BodyOf(text) ==
    LET at == CHOOSE i \in 1..Len(text) :
                  text[i] = <<"Content:">> /\ \A j \in 1..(i - 1) : text[j] # <<"Content:">>
    IN  SubSeq(text, at + 1, Len(text))

\* the bodies of the matches from the i-th on, one after the other
RECURSIVE BodiesFrom(_)
BodiesFrom(i) ==
    IF i > Len(retrieved_docs) THEN <<>>
    ELSE BodyOf(retrieved_docs[i].metadata.content) \o BodiesFrom(i + 1)

\* the lines of a occur in b in the same order
RECURSIVE IsSubsequence(_, _)
IsSubsequence(a, b) ==
    IF a = <<>> THEN TRUE
    ELSE IF b = <<>> THEN FALSE
    ELSE IF Head(a) = Head(b) THEN IsSubsequence(Tail(a), Tail(b))
    ELSE IsSubsequence(a, Tail(b))

\* C10: the body text of every match is in the assembled content, in the
\* order of the matches, whether or not its URL was seen before or is
\* missing; a match without URL adds nothing to source_urls.
C10_BodiesIncluded ==
    context_data # <<>> =>
        /\ IsSubsequence(BodiesFrom(1), context_data[1].content)
        /\ \A i \in 1..Len(context_data[1].source_urls) :
              context_data[1].source_urls[i] # ""

----------------------------------------------------------------------------
(* RAGHandler._is_general_chat and _handle_general_chat *)

(* A query is a sequence of one-character strings, as the texts of the     *)
(* chunker are.                                                            *)

UpperLetters ==
    <<"A", "B", "C", "D", "E", "F", "G", "H", "I", "J", "K", "L", "M",
      "N", "O", "P", "Q", "R", "S", "T", "U", "V", "W", "X", "Y", "Z">>

LowerLetters ==
    <<"a", "b", "c", "d", "e", "f", "g", "h", "i", "j", "k", "l", "m",
      "n", "o", "p", "q", "r", "s", "t", "u", "v", "w", "x", "y", "z">>

\* str.lower() of one character
LowerChar(c) ==
    IF \E i \in 1..Len(UpperLetters) : UpperLetters[i] = c
    THEN LowerLetters[CHOOSE i \in 1..Len(UpperLetters) : UpperLetters[i] = c]
    ELSE c

\* str.lower()
Lower(s) == [i \in 1..Len(s) |-> LowerChar(s[i])]

\* word in s: word is a substring of s
Contains(s, word) ==
    \E i \in 1..(Len(s) - Len(word) + 1) : SubSeq(s, i, i + Len(word) - 1) = word

\* any(word in query_lower for word in words)
AnyIn(words, query_lower) == \E word \in words : Contains(query_lower, word)

\* greetings
Greetings ==
    {<<"h", "e", "l", "l", "o">>,
     <<"h", "i">>,
     <<"h", "e", "y">>,
     <<"g", "o", "o", "d", " ", "m", "o", "r", "n", "i", "n", "g">>,
     <<"g", "o", "o", "d", " ", "a", "f", "t", "e", "r", "n", "o", "o", "n">>,
     <<"g", "o", "o", "d", " ", "e", "v", "e", "n", "i", "n", "g">>}

\* gratitude
Gratitude ==
    {<<"t", "h", "a", "n", "k", "s">>,
     <<"t", "h", "a", "n", "k", " ", "y", "o", "u">>,
     <<"a", "p", "p", "r", "e", "c", "i", "a", "t", "e">>}

\* farewell
Farewell ==
    {<<"b", "y", "e">>,
     <<"g", "o", "o", "d", "b", "y", "e">>,
     <<"s", "e", "e", " ", "y", "o", "u">>,
     <<"f", "a", "r", "e", "w", "e", "l", "l">>}

\* RAGHandler._is_general_chat(query)
IsGeneralChat(query) ==
    AnyIn(Greetings \cup Gratitude \cup Farewell, Lower(query))

(* A text returned to the caller is a sequence of pieces; a fixed message  *)
(* of the program is one piece.                                            *)

GreetingReply == <<"Hello! How can I assist you with making education more accessible?">>

GratitudeReply == <<"You're welcome! Let me know if you have any other questions.">>

FarewellReply == <<"Goodbye! Feel free to return if you need more assistance.">>

DefaultReply == <<"How can I help you with accessibility-related questions?">>

\* HandleGeneralChat testing the keyword groups in the opposite order
HandleGeneralChatFarewellFirst(query) ==
    LET query_lower == Lower(query)
    IN  IF AnyIn(Farewell, query_lower) THEN FarewellReply
        ELSE IF AnyIn(Gratitude, query_lower) THEN GratitudeReply
        ELSE IF AnyIn(Greetings, query_lower) THEN GreetingReply
        ELSE DefaultReply

\* RAGHandler._handle_general_chat(query)
HandleGeneralChat(query) ==
    LET query_lower == Lower(query)
    IN  IF AnyIn(Greetings, query_lower) THEN GreetingReply
        ELSE IF AnyIn(Gratitude, query_lower) THEN GratitudeReply
        ELSE IF AnyIn(Farewell, query_lower) THEN FarewellReply
        ELSE DefaultReply


\* the messages tried: greeting, gratitude and farewell, a farewell with
\* gratitude in capitals, a greeting with topic terms, a question that has
\* "hi" in a word, two other questions
Queries ==
    {<<"h", "e", "l", "l", "o">>,
     <<"T", "h", "a", "n", "k", "s">>,
     <<"b", "y", "e">>,
     <<"b", "y", "e", " ", "T", "H", "A", "N", "K", "S">>,
     <<"h", "e", "l", "l", "o", " ", "a", "c", "c", "e", "s", "s", "i", "b", "l", "e", " ", "c", "o", "u", "r", "s", "e">>,
     <<"w", "h", "a", "t", " ", "i", "s", " ", "t", "h", "i", "s">>,
     <<"p", "y", "t", "h", "o", "n", " ", "c", "o", "u", "r", "s", "e">>,
     <<"w", "e", "a", "t", "h", "e", "r">>}

----------------------------------------------------------------------------
(* RAGHandler.generate_response *)

\* the message returned when no document was retrieved
DeclineReply ==
    <<"I apologize, but I couldn't find any relevant information in my knowledge base. I'm specifically trained to help with educational accessibility topics. Could you please ask a question related to making education more accessible for students with disabilities?">>

\* the message returned for a status code other than 200
StatusErrorReply ==
    <<"I apologize, but I encountered an error connecting to the language model. Please try again later.">>

\* the message returned for a payload without choices and for any exception
\* that is not a requests.RequestException
FormatErrorReply ==
    <<"I apologize, but I encountered an error processing your request. Please try again.">>

\* the message returned for a requests.RequestException
TransportErrorReply ==
    <<"I apologize, but I encountered an error connecting to the API. Please try again later.">>

\* system_prompt, as the one line of a text
SystemPrompt == << <<"You are an expert assistant helping educators make education accessible for students with disabilities.">> >>

\* _format_conversation_history uses the last 5 messages
HistoryTurns == 5

\* LastTurns taking the first n messages: conversation_history[:n]
FirstTurns(conversation_history, n) ==
    SubSeq(conversation_history, 1, Min2(n, Len(conversation_history)))

\* conversation_history[-n:]
LastTurns(conversation_history, n) ==
    SubSeq(conversation_history, Max2(Len(conversation_history) - n + 1, 1),
           Len(conversation_history))

\* RAGHandler._format_conversation_history(conversation_history)
FormatConversationHistory(conversation_history) ==
    IF conversation_history = <<>> THEN <<>>
    ELSE LET last == LastTurns(conversation_history, HistoryTurns)
         IN  [i \in 1..Len(last) |->
                 [role |-> Get(last[i], "role", "user"),
                  content |-> Get(last[i], "content", EmptyText)]]

\* source_citation, as lines: two line breaks and the link to the first URL
SourceCitation(context) ==
    IF context.source_urls # <<>> /\ context.source_urls[1] # ""
    THEN << <<>>, <<>>,
            <<"For more information, visit:", "[", context.source_urls[1], "](",
              context.source_urls[1], ")">> >>
    ELSE <<>>

\* user_prompt, as lines
UserPrompt(context, query) ==
    << <<"Context:">> >> \o context.content
    \o << <<>>,
          <<"Based on the above context, please answer the following question:">>,
          query,
          <<>>,
          <<"Your response must end exactly with this:">> >>
    \o SourceCitation(context)

\* payload["messages"]
Messages(context, query, conversation_history) ==
    <<[role |-> "system", content |-> SystemPrompt]>>
    \o FormatConversationHistory(conversation_history)
    \o <<[role |-> "user", content |-> UserPrompt(context, query)]>>

\* payload
Payload(context, query, conversation_history) ==
    [messages |-> Messages(context, query, conversation_history),
     max_tokens |-> 500]

\* the text the generated answer is cut at for a general-chat query
CitationMarker == "\n\nFor more information"

\* response_content.split("\n\nFor more information")[0]
RECURSIVE BeforeMarker(_)
BeforeMarker(text) ==
    IF text = <<>> \/ Head(text) = CitationMarker THEN <<>>
    ELSE <<Head(text)>> \o BeforeMarker(Tail(text))

\* ReturnedContent that appends the citation marker to every answer
ReturnedContentAppended(query, response_content) ==
    response_content \o <<CitationMarker>>

\* what generate_response returns of the generated response_content
ReturnedContent(query, response_content) ==
    IF IsGeneralChat(query) THEN BeforeMarker(response_content)
    ELSE response_content

\* StatusReply with the status code and the body of the answer in it
StatusReplyWithDetail(reply) ==
    <<"ZotGPT API error:", ToString(reply.status), reply.text>>

\* the return for response.status_code != 200
StatusReply(reply) == StatusErrorReply

\* the texts generate_response can return for an answer of the generation
\* service.  response.json() of a body that is not JSON raises a ValueError
\* that is a requests.RequestException or not, depending on the version of
\* requests: either except clause can be the one that handles it.
ResponsesTo(query, reply) ==
    IF reply.status # 200 THEN {StatusReply(reply)}
    ELSE IF ~reply.is_json THEN {TransportErrorReply, FormatErrorReply}
    ELSE LET response_data == reply.json
         IN  IF "choices" \in DOMAIN response_data
                /\ Len(response_data.choices) > 0
             THEN {ReturnedContent(query, response_data.choices[1].message.content)}
             ELSE {FormatErrorReply}

\* NoDocuments that never holds: the check of line 28 is missing
NoDocumentsNever(docs) == FALSE

\* not retrieved_docs
NoDocuments(docs) == docs = <<>>

----------------------------------------------------------------------------
(* chat *)

\* most pieces of a generated answer
MaxPieces == 2

\* longest conversation history of a request
MaxHistory == 6

\* the i-th turn of a conversation
Turn(i) ==
    [role |-> IF i % 2 = 1 THEN "user" ELSE "assistant",
     content |-> << <<"turn", ToString(i)>> >>]

\* the histories tried: the conversations of 0 to MaxHistory turns
Histories == {[i \in 1..n |-> Turn(i)] : n \in 0..MaxHistory}

Requests == [message : Queries, history : Histories]

\* the matches the index answers with: relevant, below every threshold
\* with another source, and one without a source URL
ChatMatches ==
    {Match(90, <<"T1">>, "http://u1", <<"Students", "use", "software">>),
     Match(55, <<"T2">>, "http://u2", <<"the", "weather">>),
     Match(55, <<>>, "", <<"accessible", "support">>)}

SearchMatches == SeqsUpTo(ChatMatches, MaxContextMatches)

\* the pieces generated answers are made of
Pieces == {"Use captions.", CitationMarker, ", visit: [http://u1](http://u1)"}

GeneratedTexts == SeqsUpTo(Pieces, MaxPieces)

\* the answers of the generation service: an error status, a body that is
\* not JSON, JSON without choices, with no choice, and with a choice
ApiReplies ==
    {[status |-> 500, text |-> "Internal Server Error", is_json |-> FALSE,
      json |-> [error |-> "none"]],
     [status |-> 200, text |-> "<html>", is_json |-> FALSE,
      json |-> [error |-> "none"]],
     [status |-> 200, text |-> "{error}", is_json |-> TRUE,
      json |-> [error |-> "content filter"]],
     [status |-> 200, text |-> "{choices: []}", is_json |-> TRUE,
      json |-> [choices |-> <<>>]]}
    \cup {[status |-> 200, text |-> "{choices: [..]}", is_json |-> TRUE,
           json |-> [choices |-> <<[message |-> [content |-> t]]>>]] :
             t \in GeneratedTexts}

\* no answer: requests.post raised a requests.ConnectionError
ConnectionError ==
    [status |-> 0, text |-> "ConnectionError", is_json |-> FALSE,
     json |-> [error |-> "none"]]

\* the loop of chat over results.matches that collects the source paths
RECURSIVE SourcesFrom(_, _, _)
SourcesFrom(docs, i, sources) ==
    IF i > Len(docs) THEN sources
    ELSE LET doc == docs[i]
             source_path == Get(doc.metadata, "source", "")
         IN  IF "metadata" \in DOMAIN doc /\ source_path # ""
                /\ \A j \in 1..Len(sources) : sources[j] # source_path
             THEN SourcesFrom(docs, i + 1, Append(sources, source_path))
             ELSE SourcesFrom(docs, i + 1, sources)

\* ChatResponse(response=..., sources=..., source_urls=..., source_titles=...)
ChatResponse(text, docs) ==
    [status |-> 200,
     response |-> text,
     sources |-> SourcesFrom(docs, 1, <<>>),
     source_urls |-> SourceListsOf(docs).source_urls,
     source_titles |-> SourceListsOf(docs).source_titles]

\* HTTPException(status_code=500, detail=f"Error processing request: {str(e)}")
HttpError(e) ==
    [status |-> 500, detail |-> <<"Error processing request:", e>>]

\* chat after generate_response has returned text: the source lists are
\* collected and the ChatResponse is returned
ChatReturns(text, docs) ==
    /\ response' = <<text>>
    /\ chat_sources' = <<SourceListsOf(docs)>>
    /\ chat_response' = <<ChatResponse(text, docs)>>
    /\ chat_pc' = "done"

\* chat receives a request and calls pinecone_manager.search
ChatSearch ==
    /\ chat_pc = "idle"
    /\ \E r \in Requests : request' = <<r>>
    /\ index_queries' = index_queries + 1
    /\ chat_pc' = "searching"
    /\ UNCHANGED <<offlineVars, ragVars, posts, api_reply, response, chat_response>>

\* search returns; generate_response answers a general-chat query directly
AnswerGeneralChat ==
    /\ chat_pc = "searching"
    /\ IsGeneralChat(request[1].message)
    /\ \E matches \in SearchMatches :
          /\ retrieved_docs' = matches
          /\ ChatReturns(HandleGeneralChat(request[1].message), matches)
    /\ UNCHANGED <<offlineVars, relevant, context_data, request, index_queries,
                   posts, api_reply>>

\* search returns no match; generate_response declines
AnswerNoDocuments ==
    /\ chat_pc = "searching"
    /\ ~IsGeneralChat(request[1].message)
    /\ \E matches \in SearchMatches :
          /\ NoDocuments(matches)
          /\ retrieved_docs' = matches
          /\ ChatReturns(DeclineReply, matches)
    /\ UNCHANGED <<offlineVars, relevant, context_data, request, index_queries,
                   posts, api_reply>>

\* search returns matches; generate_response builds the context and the
\* payload and posts it to the generation service
PostPrompt ==
    /\ chat_pc = "searching"
    /\ ~IsGeneralChat(request[1].message)
    /\ \E matches \in SearchMatches :
          /\ ~NoDocuments(matches)
          /\ retrieved_docs' = matches
          /\ context_data' = <<PrepareContextOf(matches)>>
          /\ posts' = Append(posts, Payload(PrepareContextOf(matches),
                                            request[1].message,
                                            request[1].history))
    /\ chat_pc' = "posting"
    /\ UNCHANGED <<offlineVars, relevant, chat_sources, request, index_queries,
                   api_reply, response, chat_response>>

\* search raises (the index is unavailable, the query fails): the except
\* clause of chat raises the HTTPException
SearchRaises ==
    /\ chat_pc = "searching"
    /\ chat_response' = <<HttpError("index query failed")>>
    /\ chat_pc' = "done"
    /\ UNCHANGED <<offlineVars, ragVars, request, index_queries, posts, api_reply,
                   response>>

\* the generation service answers; generate_response returns and chat ends
PostReturns ==
    /\ chat_pc = "posting"
    /\ \E reply \in ApiReplies :
          /\ api_reply' = <<reply>>
          /\ \E text \in ResponsesTo(request[1].message, reply) :
                ChatReturns(text, retrieved_docs)
    /\ UNCHANGED <<offlineVars, retrieved_docs, relevant, context_data, request,
                   index_queries, posts>>

\* requests.post raises a requests.RequestException (no connection)
PostRaises ==
    /\ chat_pc = "posting"
    /\ api_reply' = <<ConnectionError>>
    /\ ChatReturns(TransportErrorReply, retrieved_docs)
    /\ UNCHANGED <<offlineVars, retrieved_docs, relevant, context_data, request,
                   index_queries, posts>>

\* the generation service never answers: requests.post is called without a
\* timeout and blocks, the request has no further step
PostBlocks ==
    /\ chat_pc = "posting"
    /\ chat_pc' = "blocked"
    /\ UNCHANGED <<offlineVars, ragVars, request, index_queries, posts, api_reply,
                   response, chat_response>>

ChatInit == ChunkInit /\ RagInit /\ OtherInit

ChatNext ==
    \/ ChatSearch
    \/ AnswerGeneralChat
    \/ AnswerNoDocuments
    \/ PostPrompt
    \/ SearchRaises
    \/ PostReturns
    \/ PostRaises
    \/ PostBlocks

SpecChat == ChatInit /\ [][ChatNext]_vars

\* every step of a request that can be taken is taken eventually
SpecChatFair == SpecChat /\ WF_vars(ChatNext)

----------------------------------------------------------------------------
(* Properties of a /chat request *)

\* the message of the request
Query == request[1].message

\* the generation service has answered with a generated text
Generated ==
    /\ api_reply # <<>>
    /\ api_reply[1].status = 200
    /\ api_reply[1].is_json
    /\ "choices" \in DOMAIN api_reply[1].json
    /\ api_reply[1].json.choices # <<>>

\* the generated text
GeneratedContent == api_reply[1].json.choices[1].message.content

\* the citation marker occurs in the text
HasCitationMarker(text) == \E i \in 1..Len(text) : text[i] = CitationMarker

C12_GeneralChatBypasses ==
    (request # <<>> /\ IsGeneralChat(Query)) =>
        /\ index_queries = 0
        /\ (chat_response # <<>> /\ chat_response[1].status = 200) =>
              /\ chat_response[1].response = HandleGeneralChat(Query)
              /\ chat_response[1].sources = <<>>
              /\ chat_response[1].source_urls = <<>>
              /\ chat_response[1].source_titles = <<>>

\* C13: for a query that is not general chat and for which retrieval
\* returned no match, generate_response returns the fixed decline message
\* and nothing is posted to the generation service.
C13_NoMatchesDeclines ==
    (response # <<>> /\ ~IsGeneralChat(Query) /\ retrieved_docs = <<>>) =>
        /\ response[1] = DeclineReply
        /\ posts = <<>>
        /\ api_reply = <<>>

\* a question without matches was declined
C13_Witness ==
    /\ chat_pc = "done"
    /\ response # <<>>
    /\ ~IsGeneralChat(Query)
    /\ retrieved_docs = <<>>
    /\ chat_response[1].response = DeclineReply

\* the default threshold of _check_relevance, in hundredths
DefaultThreshold == 60

\* C14: for a query that is not general chat and has matches, the
\* generation service is called only if the relevance gate admits the
\* matches; when the gate fails the request is declined and nothing is
\* posted.
C14_GateBeforeGeneration ==
    (request # <<>> /\ ~IsGeneralChat(Query) /\ retrieved_docs # <<>>
        /\ ~CheckRelevanceOf(retrieved_docs, DefaultThreshold)) =>
        /\ posts = <<>>
        /\ response # <<>> => response[1] = DeclineReply

\* C15: the messages posted to the generation service are the system
\* message, then the last five turns of the history at most, in their
\* order, then the user prompt; no older turn is among them.
C15_LastFiveTurns ==
    posts # <<>> =>
        LET messages == posts[1].messages
            history == request[1].history
            k == Min2(Len(history), HistoryTurns)
        IN  /\ Len(messages) = k + 2
            /\ messages[1] = [role |-> "system", content |-> SystemPrompt]
            /\ \A i \in 1..k : messages[1 + i] = history[Len(history) - k + i]
            /\ messages[k + 2].role = "user"
            /\ messages[k + 2].content = UserPrompt(context_data[1], Query)

\* a request with more than five turns of history was posted
C15_Witness ==
    /\ posts # <<>>
    /\ Len(request[1].history) > HistoryTurns
    /\ Len(posts[1].messages) = HistoryTurns + 2

\* the request has ended without generate_response having been called
SearchFailed == chat_pc = "done" /\ response = <<>>

\* C16: when the query of the vector index fails, the failure counts as
\* no matches: the request ends with the fixed decline message and not
\* with an HTTP error.
C16_RetrievalErrorDeclines ==
    SearchFailed =>
        /\ chat_response[1].status = 200
        /\ chat_response[1].response = DeclineReply

\* the fixed apology messages of generate_response
ApologyMessages == {StatusErrorReply, FormatErrorReply, TransportErrorReply}

\* the generation service failed: requests.post raised, the status is not
\* 200, the body is not JSON or it has no choices
GenerationFailed == api_reply # <<>> /\ ~Generated

\* C17: when the generation service returns a status other than 200 or a
\* payload without choices, or the call raises, the text returned to the
\* caller is one of the fixed apology messages, with no status code, body
\* or exception text in it, in a response that is not an HTTP error.
C17_FixedApology ==
    (chat_pc = "done" /\ GenerationFailed) =>
        /\ response[1] \in ApologyMessages
        /\ chat_response[1].status = 200
        /\ chat_response[1].response \in ApologyMessages

\* the generation service answered with status 500 and the request ended
C17_Witness ==
    /\ chat_pc = "done"
    /\ GenerationFailed
    /\ api_reply[1].status = 500
    /\ chat_response[1].response = StatusErrorReply

\* C18: every /chat request ends with an outcome, also when the
\* generation service never answers.
C18_Completes == (chat_pc = "searching") ~> (chat_pc = "done")

----------------------------------------------------------------------------
(* DocumentProcessor.process_documents and _process_file *)

(* An entry of categories_dir is a directory with its files or something   *)
(* else.  A file has a name and says what loading and chunking it does: it *)
(* gives chunks, it is empty, it cannot be read (the loader raises) or it  *)
(* cannot be chunked (chunk_document raises).                              *)

\* most files of a category
MaxFiles == 2

\* the title and the URL of the header of every file
FileTitle == <<"T1">>

FileUrl == "http://u1"

\* the chunks chunk_document returns for the content of a file
FileChunks(name) == << <<"first", "of", name>>, <<"second", "of", name>> >>

FileKinds == {"chunks", "empty", "unreadable", "unchunkable", "not text"}

\* the i-th file of a category
File(i, kind) ==
    [filename |-> <<"f" \o ToString(i), IF kind = "not text" THEN ".pdf" ELSE ".txt">>,
     kind |-> kind]

\* the file lists of a category: every kind at every position
FileLists ==
    UNION {[1..n -> FileKinds] : n \in 0..MaxFiles}

Directory(name, kinds) ==
    [name |-> name, is_dir |-> TRUE,
     files |-> [i \in 1..Len(kinds) |-> File(i, kinds[i])]]

\* os.listdir(categories_dir): two categories and a file between them
Listings ==
    {<<Directory("visual", k1),
       [name |-> "README.md", is_dir |-> FALSE, files |-> <<>>],
       Directory("hearing", k2)>> : k1 \in FileLists, k2 \in FileLists}

\* f.endswith('.txt')
IsTxt(filename) == filename[2] = ".txt"

\* files = [f for f in os.listdir(category_path) if f.endswith('.txt')]
TxtFiles(entry) == SelectSeq(entry.files, LAMBDA f : IsTxt(f.filename))

\* chunk_dicts of a file that was loaded and chunked
ChunkDicts(category_name, f) ==
    LET file_chunks == FileChunks(f.filename[1])
    IN  [i \in 1..Len(file_chunks) |->
            [content |-> StoredContent(FileTitle, FileUrl, file_chunks[i]),
             category |-> category_name,
             filename |-> f.filename,
             source |-> <<category_name, f.filename>>,
             title |-> FileTitle,
             source_url |-> FileUrl,
             chunk_index |-> i - 1,
             total_chunks |-> Len(file_chunks)]]

\* the body of the try statement of _process_file: it raises in the loader
\* or in the chunker, returns [] for a file without content, or returns the
\* chunk_dicts
TryProcessFile(category_name, f) ==
    IF f.kind = "unreadable" THEN [raised |-> TRUE, returned |-> <<>>]
    ELSE IF f.kind = "empty" THEN [raised |-> FALSE, returned |-> <<>>]
    ELSE IF f.kind = "unchunkable" THEN [raised |-> TRUE, returned |-> <<>>]
    ELSE [raised |-> FALSE, returned |-> ChunkDicts(category_name, f)]

\* DocumentProcessor._process_file: "except Exception: return []"
ProcessFile(category_name, f) ==
    LET try == TryProcessFile(category_name, f)
    IN  IF try.raised THEN <<>> ELSE try.returned

\* Extend that replaces the list: documents = chunks
ExtendReplacing(list, file_chunks) == file_chunks

\* documents.extend(chunks)
Extend(list, file_chunks) == list \o file_chunks

\* process_documents up to its loop over the categories
ProcessDocuments ==
    /\ ingest_pc = "idle"
    /\ listing' \in Listings
    /\ documents' = <<>>
    /\ category' = 1
    /\ file' = 0
    /\ ingest_pc' = "category"
    /\ UNCHANGED <<startupVars, chunkVars, ragVars, chatVars, uploadVars>>

\* outer loop, an entry that is a directory: its .txt files are listed
EnterCategory ==
    /\ ingest_pc = "category"
    /\ category <= Len(listing)
    /\ listing[category].is_dir
    /\ file' = 1
    /\ ingest_pc' = "file"
    /\ UNCHANGED <<startupVars, chunkVars, ragVars, chatVars, uploadVars, listing, category,
                   documents>>

\* outer loop, an entry that is not a directory
SkipEntry ==
    /\ ingest_pc = "category"
    /\ category <= Len(listing)
    /\ ~listing[category].is_dir
    /\ category' = category + 1
    /\ UNCHANGED <<startupVars, chunkVars, ragVars, chatVars, uploadVars, ingest_pc, listing,
                   file, documents>>

\* inner loop: one file is processed and its chunks are added
ProcessNextFile ==
    /\ ingest_pc = "file"
    /\ file <= Len(TxtFiles(listing[category]))
    /\ documents' = Extend(documents,
                           ProcessFile(listing[category].name,
                                       TxtFiles(listing[category])[file]))
    /\ file' = file + 1
    /\ UNCHANGED <<startupVars, chunkVars, ragVars, chatVars, uploadVars, ingest_pc, listing,
                   category>>

\* the inner loop ends
FinishCategory ==
    /\ ingest_pc = "file"
    /\ file > Len(TxtFiles(listing[category]))
    /\ category' = category + 1
    /\ ingest_pc' = "category"
    /\ UNCHANGED <<startupVars, chunkVars, ragVars, chatVars, uploadVars, listing, file,
                   documents>>

\* the outer loop ends: return documents
ReturnDocuments ==
    /\ ingest_pc = "category"
    /\ category > Len(listing)
    /\ ingest_pc' = "returned"
    /\ UNCHANGED <<startupVars, chunkVars, ragVars, chatVars, uploadVars, listing, category,
                   file, documents>>

IngestInit == ChunkInit /\ RagInit /\ OtherInit

IngestNext ==
    \/ ProcessDocuments
    \/ EnterCategory
    \/ SkipEntry
    \/ ProcessNextFile
    \/ FinishCategory
    \/ ReturnDocuments

SpecIngest == IngestInit /\ [][IngestNext]_vars

----------------------------------------------------------------------------
(* Properties of process_documents *)

\* the documents of one file, in their order in the list
DocumentsOf(category_name, filename) ==
    SelectSeq(documents,
              LAMBDA d : d.category = category_name /\ d.filename = filename)

\* loading or chunking the file fails or gives nothing
FileFails(f) == f.kind \in {"empty", "unreadable", "unchunkable"}

\* C19: in the list process_documents returns, a file that could not be
\* read or chunked or is empty has no chunk, and every other .txt file of
\* every category, before and after it, has all its chunks in their order.
C19_FailuresIsolated ==
    ingest_pc = "returned" =>
        \A c \in 1..Len(listing) :
           \A i \in 1..Len(listing[c].files) :
              LET f == listing[c].files[i]
                  found == DocumentsOf(listing[c].name, f.filename)
              IN  IF FileFails(f) \/ ~IsTxt(f.filename) THEN found = <<>>
                  ELSE /\ Len(found) = Len(FileChunks(f.filename[1]))
                       /\ \A k \in 1..Len(found) :
                             /\ found[k].chunk_index = k - 1
                             /\ found[k].content =
                                   StoredContent(FileTitle, FileUrl,
                                                 FileChunks(f.filename[1])[k])

\* a file that cannot be read lies between two files with chunks in the
\* first category, another file with chunks follows a file that cannot be
\* chunked in the second one, and the list has been returned
C19_Witness ==
    /\ ingest_pc = "returned"
    /\ Len(listing[1].files) >= 2
    /\ listing[1].files[1].kind = "chunks"
    /\ listing[1].files[2].kind = "unreadable"
    /\ Len(listing[3].files) >= 2
    /\ listing[3].files[1].kind = "unchunkable"
    /\ listing[3].files[2].kind = "chunks"
    /\ Len(documents) = 4

----------------------------------------------------------------------------
(* PineconeManager.add_documents *)

(* The index is the set of the vectors stored in it, one per id.  The      *)
(* embedding of a vector is a function of its content alone and is left    *)
(* out.                                                                    *)

\* batch_size of add_documents
BatchSize == 100

\* most chunks of a small corpus
MaxDocs == 2

\* most calls of add_documents
MaxUploads == 2

\* the n-th chunk of the corpus, as process_documents returns it
Doc(n) ==
    [content |-> StoredContent(FileTitle, FileUrl, <<"chunk", ToString(n)>>),
     title |-> FileTitle,
     category |-> "visual",
     source |-> "doc.txt",
     source_url |-> FileUrl]

\* the sequences without repetition of at most n of the numbers 1..max
RECURSIVE Arrangements(_, _)
Arrangements(n, max) ==
    IF n = 0 THEN {<<>>}
    ELSE LET shorter == Arrangements(n - 1, max)
         IN  shorter \cup {Append(q, x) : q \in shorter, x \in 1..max}

Distinct(q) == \A i, j \in 1..Len(q) : i # j => q[i] # q[j]

\* the document lists uploaded: the chunks of a small corpus in every order,
\* and a corpus that needs a second batch
Corpora ==
    {[i \in 1..Len(q) |-> Doc(q[i])] : q \in {a \in Arrangements(MaxDocs, MaxDocs) : Distinct(a)}}
    \cup {[i \in 1..(BatchSize + 1) |-> Doc(i)]}

\* the vector built for the document at position i of the list
Vector(i, doc) ==
    [id |-> "doc_" \o ToString(i),
     metadata |-> [content |-> doc.content,
                   title |-> Get(doc, "title", <<>>),
                   category |-> Get(doc, "category", ""),
                   source |-> Get(doc, "source", ""),
                   source_url |-> Get(doc, "source_url", "")]]

\* index.upsert(vectors=batch): a vector replaces the stored one of its id
Upsert(stored, batch) ==
    {v \in stored : \A k \in 1..Len(batch) : batch[k].id # v.id}
    \cup {batch[k] : k \in 1..Len(batch)}

\* add_documents up to its loop over the batches: the vectors are built
AddDocuments ==
    /\ upload_pc = "idle"
    /\ Len(uploads) < MaxUploads
    /\ \E docs \in Corpora :
          /\ vectors' = [i \in 1..Len(docs) |-> Vector(i - 1, docs[i])]
          /\ uploads' = Append(uploads, [documents |-> docs, failed |-> FALSE,
                                         returned |-> FALSE, index |-> {}])
    /\ batch_start' = 0
    /\ upload_pc' = "batches"
    /\ UNCHANGED <<startupVars, chunkVars, ragVars, chatVars, ingestVars, index>>

\* one batch is upserted
UpsertBatch ==
    /\ upload_pc = "batches"
    /\ batch_start < Len(vectors)
    /\ index' = Upsert(index, Slice(vectors, batch_start, batch_start + BatchSize))
    /\ batch_start' = batch_start + BatchSize
    /\ UNCHANGED <<startupVars, chunkVars, ragVars, chatVars, ingestVars, upload_pc, vectors,
                   uploads>>

\* index.upsert raises: the error is logged and the loop goes on with the
\* next batch
UpsertRaises ==
    /\ upload_pc = "batches"
    /\ batch_start < Len(vectors)
    /\ uploads' = [uploads EXCEPT ![Len(uploads)].failed = TRUE]
    /\ batch_start' = batch_start + BatchSize
    /\ UNCHANGED <<startupVars, chunkVars, ragVars, chatVars, ingestVars, upload_pc, index,
                   vectors>>

\* the loop over the batches ends and add_documents returns
AddDocumentsReturns ==
    /\ upload_pc = "batches"
    /\ batch_start >= Len(vectors)
    /\ uploads' = [uploads EXCEPT ![Len(uploads)].returned = TRUE,
                                  ![Len(uploads)].index = index]
    /\ upload_pc' = "idle"
    /\ UNCHANGED <<startupVars, chunkVars, ragVars, chatVars, ingestVars, index, vectors,
                   batch_start>>

UploadInit == ChunkInit /\ RagInit /\ OtherInit

UploadNext ==
    \/ AddDocuments
    \/ UpsertBatch
    \/ UpsertRaises
    \/ AddDocumentsReturns

SpecUpload == UploadInit /\ [][UploadNext]_vars

----------------------------------------------------------------------------
(* Properties of add_documents *)

\* the two lists have the same chunks, in any order
SameChunks(a, b) ==
    /\ Len(a) = Len(b)
    /\ {a[i] : i \in 1..Len(a)} = {b[i] : i \in 1..Len(b)}

\* C20: uploading is idempotent by a per-chunk identifier: after a call of
\* add_documents with the chunks of the call before it, in the same or in
\* another order, both without a failed batch, the index is in the state
\* the call before left it in: every chunk under the same id, none swapped.
C20_UploadConverges ==
    \A i \in 1..(Len(uploads) - 1) :
       LET first == uploads[i]
           second == uploads[i + 1]
       IN  (/\ first.returned /\ ~first.failed
            /\ second.returned /\ ~second.failed
            /\ SameChunks(first.documents, second.documents))
           => second.index = first.index

----------------------------------------------------------------------------
(* The route of a /chat request *)

\* where a request stands on the route START, RETRIEVE, GENERAL_CHAT,
\* OUT_OF_SCOPE, ANSWER: it has called search, it has posted to the
\* generation service, or it has ended with a canned reply, the decline
\* message, the outcome of the generation call or an HTTP error
Route ==
    CASE chat_pc = "idle" -> "START"
      [] chat_pc = "searching" -> "RETRIEVE"
      [] chat_pc \in {"posting", "blocked"} -> "ANSWER"
      [] chat_pc = "done" ->
            IF chat_response[1].status # 200 THEN "ERROR"
            ELSE IF posts # <<>> THEN "ANSWER"
            ELSE IF response[1] = DeclineReply THEN "OUT_OF_SCOPE"
            ELSE "GENERAL_CHAT"

RouteTransitions ==
    {<<"START", "GENERAL_CHAT">>, <<"START", "OUT_OF_SCOPE">>,
     <<"START", "RETRIEVE">>,
     <<"RETRIEVE", "OUT_OF_SCOPE">>, <<"RETRIEVE", "ANSWER">>}

\* C21: a /chat request follows only the transitions START -> GENERAL_CHAT,
\* OUT_OF_SCOPE or RETRIEVE and RETRIEVE -> OUT_OF_SCOPE or ANSWER, and the
\* generation service is called at most once per request, only on the way
\* to ANSWER: never for a general-chat query, never with an empty match
\* list.
C21_RouteTransitions ==
    [][/\ Route' # Route => <<Route, Route'>> \in RouteTransitions
       /\ Len(posts') <= 1
       /\ posts' # posts =>
             /\ Route' = "ANSWER"
             /\ ~IsGeneralChat(Query)
             /\ retrieved_docs' # <<>>]_vars

----------------------------------------------------------------------------
(* Properties of the sliding window of _chunk_section *)

\* an iteration of the while loop appends a chunk to those of the section
ChunkAppended ==
    /\ pc = "while"
    /\ Len(section_chunks') = Len(section_chunks) + 1

\* the chunk before the iteration and the chunk it appends
PreviousChunk == section_chunks[Len(section_chunks)]

NewChunk == section_chunks'[Len(section_chunks')]

\* the cut of the iteration: its chunk is section[start:chunk_end]
CutPosition == start + Len(NewChunk)

\* Python's s[-n:] for a count n of characters: the last n characters of s,
\* all of s when it has fewer
Trailing(s, n) == IF n <= Len(s) THEN SubSeq(s, Len(s) - n + 1, Len(s)) ELSE s

IsPrefix(p, s) == Len(p) <= Len(s) /\ SubSeq(s, 1, Len(p)) = p

\* consecutive chunks of one section: the new one begins with the trailing
\* overlap_size characters of the one before it
OverlapRepeated ==
    section_chunks # <<>> =>
        IsPrefix(Trailing(PreviousChunk, overlap_size), NewChunk)

\* C22: for consecutive chunks of one oversized section the next chunk
\* begins with the trailing overlap_size characters of the previous one,
\* and the next cursor is exactly cut_position - overlap_size, also when the
\* previous chunk is shorter than overlap_size.
C22_OverlapExact ==
    [][(ValidConfig /\ ChunkAppended) =>
          /\ OverlapRepeated
          /\ pc' = "while" => start' = CutPosition - overlap_size]_vars

\* C22, amended: the next chunk begins with the trailing overlap_size
\* characters of the previous one, and the next cursor is
\* cut_position - overlap_size clamped at 0: it stays at the start of the
\* section when the previous chunk is shorter than overlap_size.
C22_OverlapClamped ==
    [][(ValidConfig /\ ChunkAppended) =>
          /\ OverlapRepeated
          /\ pc' = "while" =>
                /\ start' = Max2(CutPosition - overlap_size, 0)
                /\ Len(NewChunk) < overlap_size => start' = 0]_vars

\* a section has been cut twice with an overlap: its second chunk repeats
\* the end of the first
C22_Witness ==
    /\ ValidConfig
    /\ pc = "while"
    /\ overlap_size > 0
    /\ Len(section_chunks) >= 2
    /\ start > 0

\* C23: under every valid configuration the cursor of _chunk_section never
\* moves backwards: after an iteration start is at least what it was.
C23_CursorMonotone ==
    [][(ValidConfig /\ pc = "while" /\ pc' = "while") => start' >= start]_vars

\* an iteration has cut a chunk no longer than the overlap at a cursor
\* inside the section, and the cursor is where it was
C23_Witness ==
    /\ ValidConfig
    /\ LoopsForever
    /\ start > 0
    /\ section_chunks # <<>>
    /\ Len(section_chunks[Len(section_chunks)]) <= overlap_size

\* the offsets in w where a sentence boundary ends: a character of [.!?],
\* then a whole run of whitespace
SentenceEndOffsets(w) ==
    {i \in 1..Len(w) :
        /\ i = Len(w) \/ w[i + 1] \notin Whitespace
        /\ \E k \in 1..(i - 1) :
              /\ w[k] \in SentenceEnd
              /\ \A j \in (k + 1)..i : w[j] \in Whitespace}

\* the offsets in w where a run of whitespace begins
WhitespaceOffsets(w) ==
    {i \in 0..(Len(w) - 1) :
        /\ w[i + 1] \in Whitespace
        /\ i = 0 \/ w[i] \notin Whitespace}

MaxOf(S) == CHOOSE x \in S : \A y \in S : y <= x

\* the cut by priority: the last sentence boundary of the look-ahead
\* window, else the last of the given whitespace offsets of the plain
\* window, else the hard offset
PriorityCut(sentence_ends, whitespace) ==
    IF sentence_ends # {} THEN start + MaxOf(sentence_ends)
    ELSE IF whitespace # {} THEN start + MaxOf(whitespace)
    ELSE start + max_chunk_size

PlainWindow == Slice(sections[sec], start, start + max_chunk_size)

SentenceWindow ==
    Slice(sections[sec], start, start + max_chunk_size + LookAhead)

\* an iteration of the while loop that cuts a chunk and goes on
WindowStep == ChunkAppended /\ pc' = "while"

\* C24: at each window step the cut is the end of the last sentence
\* boundary within max_chunk_size + 50 characters of the cursor, otherwise
\* the last whitespace of the plain max_chunk_size window, otherwise the
\* hard offset cursor + max_chunk_size.
C24_CutPriority ==
    [][WindowStep =>
          CutPosition = PriorityCut(SentenceEndOffsets(SentenceWindow),
                                    WhitespaceOffsets(PlainWindow))]_vars

\* C24, amended: the whitespace cut is at the beginning of the last run of
\* whitespace of the plain window that does not begin at the cursor itself;
\* a window whose only whitespace is at its beginning gets the hard offset.
C24_CutPriorityPastCursor ==
    [][WindowStep =>
          CutPosition = PriorityCut(SentenceEndOffsets(SentenceWindow),
                                    WhitespaceOffsets(PlainWindow) \ {0})]_vars

\* a window that begins with its only whitespace was cut at the hard offset
C24_Witness ==
    /\ ValidConfig
    /\ pc = "while"
    /\ section_chunks # <<>>
    /\ LET chunk == section_chunks[Len(section_chunks)]
       IN  /\ Len(chunk) = max_chunk_size
           /\ WhitespaceOffsets(chunk) = {0}

----------------------------------------------------------------------------
(* Properties of _split_into_sections and _clean_text *)

\* the sections of the cleaned text before the merge
SplitSections == StripNonEmpty(ReSplit(CleanText(content), 1, 1))

\* a section of the merge that is not one of the sections it was given: a
\* group joined from several of them
IsMergedGroup(section) ==
    \A i \in 1..Len(SplitSections) : SplitSections[i] # section

\* C25: every group the greedy merge joins from sections that fit is, spaces
\* of the join included, at most max_chunk_size long, so it becomes a chunk
\* directly and is never split by the sliding window.
C25_MergedGroupsFit ==
    pc \notin {"new", "ready"} =>
        \A i \in 1..Len(sections) :
           IsMergedGroup(sections[i]) =>
              Len(sections[i]) <= max_chunk_size

\* the characters of s that _clean_text keeps, in their order
KeptChars(s) == SelectSeq(s, LAMBDA c : c \in WordChars \cup KeptPunctuation)

\* s has two whitespace characters side by side
HasWhitespaceRun(s) ==
    \E i \in 1..(Len(s) - 1) : s[i] \in Whitespace /\ s[i + 1] \in Whitespace

\* C26: the output of _clean_text has no run of two or more whitespace
\* characters, and it has every word character and every kept punctuation
\* character of the input, in order.
C26_CleanTextCollapses ==
    pc \notin {"new", "ready"} =>
        /\ ~HasWhitespaceRun(CleanText(content))
        /\ KeptChars(CleanText(content)) = KeptChars(content)

----------------------------------------------------------------------------
(* Properties of the source lists and of the stored header *)

TitleOf(i) == retrieved_docs[i].metadata.title

\* source_titles has, at every position, the title of the match that first
\* had the URL at that position of source_urls
TitlesParallel(lists) ==
    /\ Len(lists.source_titles) = Len(lists.source_urls)
    /\ \A i \in 1..Len(lists.source_urls) :
          /\ i <= Len(lists.source_titles)
          /\ lists.source_titles[i] = TitleOf(FirstMatchWith(lists.source_urls[i]))

\* C27: in every result of _prepare_context source_titles is parallel to
\* source_urls: the lists are equally long and source_titles[i] is the
\* title of the match that first contributed source_urls[i], also for
\* matches with an empty title.
C27_TitlesParallel ==
    /\ context_data # <<>> => TitlesParallel(context_data[1])
    /\ chat_sources # <<>> => TitlesParallel(chat_sources[1])

\* the bodies of the matches, each the context of its match
Bodies ==
    [i \in 1..Len(retrieved_docs) |-> BodyOf(retrieved_docs[i].metadata.content)]

\* C28: for chunks stored by _process_file with the header (Title line,
\* Source URL line, Content: marker, body) the content assembled by
\* _prepare_context is exactly the chunk bodies: no Title line, no
\* Source URL line and no Content: marker line is left.
C28_HeaderStripped ==
    context_data # <<>> => context_data[1].content = JoinContexts(Bodies)

----------------------------------------------------------------------------
(* Properties of the canned replies *)

\* the lower-cased message has a keyword of the group as a substring
HasKeyword(group) ==
    \E word \in group, i \in 1..Len(Query) :
       /\ i + Len(word) - 1 <= Len(Query)
       /\ \A k \in 1..Len(word) : LowerChar(Query[i + k - 1]) = word[k]

\* the request has been answered with a response body
Answered == chat_pc = "done" /\ chat_response[1].status = 200

\* C29: a message that has a greeting, gratitude or farewell keyword as a
\* substring, in any case, is general chat and gets one of the three canned
\* replies: the greeting reply if it has a greeting keyword, else the
\* gratitude reply if it has a gratitude keyword, else the farewell reply;
\* never the generic fallback.  No other message gets a canned reply.
C29_CannedReplyByPriority ==
    Answered =>
       LET reply == chat_response[1].response
           greeting == HasKeyword(Greetings)
           gratitude == HasKeyword(Gratitude)
           farewell == HasKeyword(Farewell)
       IN  /\ IsGeneralChat(Query) <=> (greeting \/ gratitude \/ farewell)
           /\ reply = GreetingReply <=> greeting
           /\ reply = GratitudeReply <=> (~greeting /\ gratitude)
           /\ reply = FarewellReply <=> (~greeting /\ ~gratitude /\ farewell)
           /\ reply # DefaultReply

\* a message with a farewell keyword and, in capitals, a gratitude keyword
\* was answered with the gratitude reply
C29_Witness ==
    /\ Answered
    /\ HasKeyword(Farewell)
    /\ HasKeyword(Gratitude)
    /\ Query # Lower(Query)
    /\ chat_response[1].response = GratitudeReply

----------------------------------------------------------------------------
(* lifespan: the startup of the application *)

\* lifespan up to the test of RELOAD_DOCUMENTS: the components are built
\* and the environment asks for a reload or does not
LifespanStarts ==
    /\ startup_pc = "off"
    /\ \E reload \in BOOLEAN :
          startup_pc' = IF reload THEN "reload" ELSE "serving"
    /\ UNCHANGED <<chunkVars, ragVars, chatVars, ingestVars, uploadVars, unawaited>>

\* a constructor of the components raises: the error is logged and raised
\* again, the application does not start
LifespanFails ==
    /\ startup_pc = "off"
    /\ startup_pc' = "failed"
    /\ UNCHANGED <<chunkVars, ragVars, chatVars, ingestVars, uploadVars, unawaited>>

\* documents = doc_processor.process_documents()
LifespanProcesses == startup_pc = "reload" /\ IngestNext

\* pinecone_manager.add_documents(documents): add_documents is an async def
\* and the call is not awaited, so it returns a coroutine object whose body
\* is never run; lifespan logs the upload and yields, requests are served
LifespanUploads ==
    /\ startup_pc = "reload"
    /\ ingest_pc = "returned"
    /\ unawaited' = Append(unawaited, documents)
    /\ startup_pc' = "serving"
    /\ UNCHANGED <<chunkVars, ragVars, chatVars, ingestVars, uploadVars>>

StartupInit == ChunkInit /\ RagInit /\ OtherInit

StartupNext ==
    \/ LifespanStarts
    \/ LifespanFails
    \/ LifespanProcesses
    \/ LifespanUploads

SpecStartup == StartupInit /\ [][StartupNext]_vars

----------------------------------------------------------------------------
(* Properties of the startup *)

\* the chunk is in the index
Upserted(doc) == \E v \in index : v.metadata.content = doc.content

\* C30: when the application has started with RELOAD_DOCUMENTS=true, every
\* chunk process_documents returned is in the vector index before requests
\* are served, and the upload was run, not only created.
C30_UploadedBeforeServing ==
    (startup_pc = "serving" /\ ingest_pc = "returned") =>
        /\ \A i \in 1..Len(documents) : Upserted(documents[i])
        /\ documents # <<>> => unawaited = <<>>

====
